---- MODULE Spec2Model ----
(***************************************************************************)
(* RenderedComposite (scene-synth/data/rendered.py): the multi-channel     *)
(* top-down composite of a room, built from the floor and wall height      *)
(* grids, the door/window nodes and the object nodes added afterwards.     *)
(*                                                                         *)
(* Numbers.  Every tensor value v is held as the integer 2*v, so that the  *)
(* masks 0.5 and 1 are the integers Half and One, and heights, sines and   *)
(* cosines are multiples of 0.5.  Sizes, offsets and channel counts are    *)
(* plain integers.  A bbox_min component (a float) is held doubled too,    *)
(* and math.floor of it is the floor of its half.                          *)
(*                                                                         *)
(* Grids.  A size x size tensor is observed at the cells Probe \X Probe:   *)
(* every tensor operation of the class is cell by cell, and the paste of   *)
(* a patch into a buffer reads one patch cell per buffer cell, so the      *)
(* observed cells evolve exactly as they do in the full tensor.            *)
(***************************************************************************)
EXTENDS Integers, Sequences, FiniteSets, TLC

\* side of the room grids (floor.shape[0])
S == 256
\* most object nodes added to one composite
MaxAdds == 2
\* most categories of a composite
NumCats == 2
\* largest num_extra_channels asked for
MaxExtra == 1

\* the patch size that forces the offset 0
Sentinel == 256
\* the tensor value 0.5
Half == 1
One == Half + Half

Max(a, b) == IF a >= b THEN a ELSE b
Min(a, b) == IF a <= b THEN a ELSE b

Probe == {0, 1, S - 1}
Cells == Probe \X Probe
Zeros == [c \in Cells |-> 0]

\* math.floor of a doubled float
Floor(v) == v \div 2

\* (x) ** 0.5 on the perfect squares the transforms give
Sqrt(n) == CHOOSE r \in 0..n : r * r = n

(***************************************************************************)
(* A patch (node["height_map"], node["height_map_obb"]): xsize x ysize     *)
(* cells of height hv, the last cell being empty when hole is set.         *)
(***************************************************************************)
PatchAt(h, i, j) ==
    IF h.hole /\ i = h.xsize - 1 /\ j = h.ysize - 1 THEN 0 ELSE h.hv

\* a slice bound as Python normalises it for a dimension of length S
SliceBound(i) == IF i < 0 THEN Max(i + S, 0) ELSE Min(i, S)
SliceStart(lo) == SliceBound(lo)
SliceLen(lo, n) == Max(SliceBound(lo + n) - SliceBound(lo), 0)

\* to_add[xmin : xmin + xsize, ymin : ymin + ysize] = h is accepted when each
\* dimension of h is the slice's length or 1 (broadcast); else RuntimeError
PasteOk(h, xmin, ymin) ==
    /\ (SliceLen(xmin, h.xsize) = h.xsize \/ h.xsize = 1)
    /\ (SliceLen(ymin, h.ysize) = h.ysize \/ h.ysize = 1)

\* to_add = torch.zeros((size, size)); to_add[xmin : ..., ymin : ...] = h
Paste(h, xmin, ymin) ==
    [c \in Cells |->
        IF /\ SliceStart(xmin) <= c[1]
           /\ c[1] < SliceStart(xmin) + SliceLen(xmin, h.xsize)
           /\ SliceStart(ymin) <= c[2]
           /\ c[2] < SliceStart(ymin) + SliceLen(ymin, h.ysize)
        THEN PatchAt(h, c[1] - SliceStart(xmin), c[2] - SliceStart(ymin))
        ELSE 0]

\* the two "if xmin < 0: xmin = 0" lines left out
Offset_unclamped(bmin, size) ==
    IF size = Sentinel THEN 0 ELSE Floor(bmin)

\* xmin = math.floor(bbox_min[..]); if xmin < 0: xmin = 0; if xsize == 256: xmin = 0
Offset(bmin, size) ==
    IF size = Sentinel THEN 0
    ELSE IF Floor(bmin) < 0 THEN 0 ELSE Floor(bmin)

\* xmin = max(0, math.floor(bbox_min_obb[..]))
OffsetObb(bmin, size) == Max(0, Floor(bmin))

VARIABLES
    built,        \* a RenderedComposite exists
    categories,   \* self.categories
    room_mask, wall_mask, height_map, cat_map, sin_map, cos_map,
    door_map, window_map,
    call,         \* the last call: its name, its node argument, its outcome
    ret,          \* the tensor the last call returned, <<>> when none
    seed_log,     \* the door/window pastes of the constructor, in order
    log,          \* the pastes of the object nodes added so far, in order
    height0,      \* height_map as the constructor left it
    held,         \* the tensor a get_cat_map caller holds, <<>> when none
    cls_categories,    \* RenderedScene.categories, <<>> for None
    cat_to_index,      \* RenderedScene.cat_to_index
    current_data_dir,  \* RenderedScene.current_data_dir
    rng,          \* the state of the random module
    loaded,       \* the RenderedScene the last load built, <<>> when none
    kept          \* a RenderedScene of an earlier load that its caller kept

grids == <<room_mask, wall_mask, height_map, cat_map, sin_map, cos_map,
           door_map, window_map>>
\* the class variables of RenderedScene, the random module and its loads
loader == <<cls_categories, cat_to_index, current_data_dir, rng, loaded, kept>>
vars == <<built, categories, room_mask, wall_mask, height_map, cat_map,
          sin_map, cos_map, door_map, window_map, call, ret, seed_log, log,
          height0, held, cls_categories, cat_to_index, current_data_dir, rng,
          loaded, kept>>

\* the composite's fields as one value
Self ==
    [categories |-> categories, room_mask |-> room_mask,
     wall_mask |-> wall_mask, height_map |-> height_map, cat_map |-> cat_map,
     sin_map |-> sin_map, cos_map |-> cos_map, door_map |-> door_map,
     window_map |-> window_map]

(***************************************************************************)
(* RenderedComposite.__init__                                              *)
(***************************************************************************)
\* the loop's turn without self.wall_mask[to_add > 0] = 1
SeedNode_nopromote(self, node) ==
    LET h == node.height_map
        xmin == Offset(node.bbox_min[1], h.xsize)
        ymin == Offset(node.bbox_min[3], h.ysize)
        to_add == Paste(h, xmin, ymin)
        mask == [c \in Cells |-> IF to_add[c] > 0 THEN Half ELSE to_add[c]]
    IN [self EXCEPT
          !.height_map = [c \in Cells |->
              IF to_add[c] > self.height_map[c] THEN to_add[c]
              ELSE self.height_map[c]],
          !.door_map = [c \in Cells |->
              IF node.category = "door" THEN self.door_map[c] + mask[c]
              ELSE self.door_map[c]],
          !.window_map = [c \in Cells |->
              IF node.category = "door" THEN self.window_map[c]
              ELSE self.window_map[c] + mask[c]]]

\* one turn of the door/window loop
SeedNode(self, node) ==
    LET h == node.height_map
        xmin == Offset(node.bbox_min[1], h.xsize)
        ymin == Offset(node.bbox_min[3], h.ysize)
        to_add == Paste(h, xmin, ymin)
    IN [self EXCEPT
          !.height_map = [c \in Cells |->
              IF to_add[c] > self.height_map[c] THEN to_add[c]
              ELSE self.height_map[c]],
          !.wall_mask = [c \in Cells |->
              IF to_add[c] > 0 THEN One ELSE self.wall_mask[c]],
          !.door_map = [c \in Cells |->
              IF node.category = "door"
              THEN self.door_map[c] + (IF to_add[c] > 0 THEN Half ELSE to_add[c])
              ELSE self.door_map[c]],
          !.window_map = [c \in Cells |->
              IF node.category = "door"
              THEN self.window_map[c]
              ELSE self.window_map[c]
                   + (IF to_add[c] > 0 THEN Half ELSE to_add[c])]]

SeedFits(node) ==
    PasteOk(node.height_map,
            Offset(node.bbox_min[1], node.height_map.xsize),
            Offset(node.bbox_min[3], node.height_map.ysize))

RECURSIVE SeedNodes(_, _)
\* the loop over door_window_nodes; err is set by the first paste refused
SeedNodes(self, nodes) ==
    IF nodes = <<>> THEN [err |-> "none", self |-> self]
    ELSE IF ~SeedFits(Head(nodes)) THEN [err |-> "RuntimeError", self |-> self]
    ELSE SeedNodes(SeedNode(self, Head(nodes)), Tail(nodes))

RenderedComposite(cats, floor, wall, door_window_nodes) ==
    SeedNodes(
        [categories |-> cats,
         room_mask |-> [c \in Cells |->
             IF floor[c] + wall[c] # 0 THEN One ELSE 0],
         wall_mask |-> [c \in Cells |-> IF wall[c] # 0 THEN Half ELSE 0],
         height_map |-> [c \in Cells |-> Max(floor[c], wall[c])],
         cat_map |-> [i \in 1..Len(cats) |-> Zeros],
         sin_map |-> Zeros,
         cos_map |-> Zeros,
         door_map |-> Zeros,
         window_map |-> Zeros],
        door_window_nodes)

(***************************************************************************)
(* Adding object nodes                                                     *)
(***************************************************************************)
\* a = transform[0]; b = transform[8]; (b / scale, a / scale)
get_transformation(transform) ==
    LET a == transform[0]
        b == transform[8]
        scale == Sqrt(a * a + b * b)
    IN <<(One * b) \div scale, (One * a) \div scale>>

\* (sin + 1) / 2
Enc(s) == (s + One) \div 2

\* update = to_add > 0: the heights written wherever the object is
add_height_map_overwrite(self, to_add, category, sin, cos) ==
    LET update == [c \in Cells |-> to_add[c] > 0]
        mask == [c \in Cells |-> IF to_add[c] > 0 THEN Half ELSE 0]
    IN [self EXCEPT
          !.height_map = [c \in Cells |->
              IF update[c] THEN to_add[c] ELSE self.height_map[c]],
          !.cat_map[category + 1] = [c \in Cells |->
              self.cat_map[category + 1][c] + mask[c]],
          !.sin_map = [c \in Cells |->
              IF update[c] THEN Enc(sin) ELSE self.sin_map[c]],
          !.cos_map = [c \in Cells |->
              IF update[c] THEN Enc(cos) ELSE self.cos_map[c]]]

\* update = to_add >= self.height_map: a tie takes the cell
add_height_map_ge(self, to_add, category, sin, cos) ==
    LET update == [c \in Cells |-> to_add[c] >= self.height_map[c]]
        mask == [c \in Cells |-> IF to_add[c] > 0 THEN Half ELSE 0]
    IN [self EXCEPT
          !.height_map = [c \in Cells |->
              IF update[c] THEN to_add[c] ELSE self.height_map[c]],
          !.cat_map[category + 1] = [c \in Cells |->
              self.cat_map[category + 1][c] + mask[c]],
          !.sin_map = [c \in Cells |->
              IF update[c] THEN Enc(sin) ELSE self.sin_map[c]],
          !.cos_map = [c \in Cells |->
              IF update[c] THEN Enc(cos) ELSE self.cos_map[c]]]

\* self.cat_map[category] = torch.max(self.cat_map[category], mask)
add_height_map_clamped(self, to_add, category, sin, cos) ==
    LET update == [c \in Cells |-> to_add[c] > self.height_map[c]]
        mask == [c \in Cells |-> IF to_add[c] > 0 THEN Half ELSE 0]
    IN [self EXCEPT
          !.height_map = [c \in Cells |->
              IF update[c] THEN to_add[c] ELSE self.height_map[c]],
          !.cat_map[category + 1] = [c \in Cells |->
              Max(self.cat_map[category + 1][c], mask[c])],
          !.sin_map = [c \in Cells |->
              IF update[c] THEN Enc(sin) ELSE self.sin_map[c]],
          !.cos_map = [c \in Cells |->
              IF update[c] THEN Enc(cos) ELSE self.cos_map[c]]]

\* self.cat_map = self.cat_map + mask: the mask broadcast to every layer
add_height_map_allcats(self, to_add, category, sin, cos) ==
    LET update == [c \in Cells |-> to_add[c] > self.height_map[c]]
        mask == [c \in Cells |-> IF to_add[c] > 0 THEN Half ELSE 0]
    IN [self EXCEPT
          !.height_map =
              [c \in Cells |->
                  IF update[c] THEN to_add[c] ELSE self.height_map[c]],
          !.cat_map =
              [k \in 1..Len(self.cat_map) |->
                  [c \in Cells |-> self.cat_map[k][c] + mask[c]]],
          !.sin_map =
              [c \in Cells |->
                  IF update[c] THEN Enc(sin) ELSE self.sin_map[c]],
          !.cos_map =
              [c \in Cells |->
                  IF update[c] THEN Enc(cos) ELSE self.cos_map[c]]]

\* the category mask written, like the orientation, only where the object
\* raised the height
add_height_map_winnermask(self, to_add, category, sin, cos) ==
    LET update == [c \in Cells |-> to_add[c] > self.height_map[c]]
        mask == [c \in Cells |-> IF update[c] THEN Half ELSE 0]
    IN [self EXCEPT
          !.height_map =
              [c \in Cells |->
                  IF update[c] THEN to_add[c] ELSE self.height_map[c]],
          !.cat_map[category + 1] =
              [c \in Cells |-> self.cat_map[category + 1][c] + mask[c]],
          !.sin_map =
              [c \in Cells |->
                  IF update[c] THEN Enc(sin) ELSE self.sin_map[c]],
          !.cos_map =
              [c \in Cells |->
                  IF update[c] THEN Enc(cos) ELSE self.cos_map[c]]]

\* the mask taken to be the buffer itself instead of 0.5 where it is positive
add_height_map_rawmask(self, to_add, category, sin, cos) ==
    LET update == [c \in Cells |-> to_add[c] > self.height_map[c]]
    IN [self EXCEPT
          !.height_map =
              [c \in Cells |->
                  IF update[c] THEN to_add[c] ELSE self.height_map[c]],
          !.cat_map[category + 1] =
              [c \in Cells |-> self.cat_map[category + 1][c] + to_add[c]],
          !.sin_map =
              [c \in Cells |->
                  IF update[c] THEN Enc(sin) ELSE self.sin_map[c]],
          !.cos_map =
              [c \in Cells |->
                  IF update[c] THEN Enc(cos) ELSE self.cos_map[c]]]

add_height_map(self, to_add, category, sin, cos) ==
    LET update == [c \in Cells |-> to_add[c] > self.height_map[c]]
        mask == [c \in Cells |-> IF to_add[c] > 0 THEN Half ELSE 0]
    IN [self EXCEPT
          !.height_map = [c \in Cells |->
              IF update[c] THEN to_add[c] ELSE self.height_map[c]],
          !.cat_map[category + 1] = [c \in Cells |->
              self.cat_map[category + 1][c] + mask[c]],
          !.sin_map = [c \in Cells |->
              IF update[c] THEN Enc(sin) ELSE self.sin_map[c]],
          !.cos_map = [c \in Cells |->
              IF update[c] THEN Enc(cos) ELSE self.cos_map[c]]]

\* the offsets add_node computes for node
NodeXmin(node) == Offset(node.bbox_min[1], node.height_map.xsize)
NodeYmin(node) == Offset(node.bbox_min[3], node.height_map.ysize)

add_node(self, node) ==
    LET h == node.height_map
        xmin == NodeXmin(node)
        ymin == NodeYmin(node)
        sc == get_transformation(node.transform)
    IN IF ~PasteOk(h, xmin, ymin) THEN [err |-> "RuntimeError", self |-> self]
       ELSE [err |-> "none",
             self |-> add_height_map(self, Paste(h, xmin, ymin),
                                     node.category, sc[1], sc[2])]

\* the offsets add_node_obb computes for node
ObbXmin(node) == OffsetObb(node.bbox_min_obb[1], node.height_map_obb.xsize)
ObbYmin(node) == OffsetObb(node.bbox_min_obb[3], node.height_map_obb.ysize)

add_node_obb(self, node) ==
    LET h == node.height_map_obb
        xmin == ObbXmin(node)
        ymin == ObbYmin(node)
        sc == get_transformation(node.transform)
    IN IF ~PasteOk(h, xmin, ymin) THEN [err |-> "RuntimeError", self |-> self]
       ELSE [err |-> "none",
             self |-> add_height_map(self, Paste(h, xmin, ymin),
                                     node.category, sc[1], sc[2])]

RECURSIVE add_nodes(_, _)
\* for node in nodes: self.add_node(node); an exception ends the loop
add_nodes(self, nodes) ==
    IF nodes = <<>> THEN [err |-> "none", self |-> self]
    ELSE LET r == add_node(self, Head(nodes))
         IN IF r.err # "none" THEN r ELSE add_nodes(r.self, Tail(nodes))

RECURSIVE add_nodes_obb(_, _)
add_nodes_obb(self, nodes) ==
    IF nodes = <<>> THEN [err |-> "none", self |-> self]
    ELSE LET r == add_node_obb(self, Head(nodes))
         IN IF r.err # "none" THEN r ELSE add_nodes_obb(r.self, Tail(nodes))

(***************************************************************************)
(* The composite tensor: a sequence of channels, channel i at i + 1        *)
(***************************************************************************)
RECURSIVE SumLayers(_, _)
\* cat_map.sum(0) at cell c
SumLayers(cm, c) ==
    IF cm = <<>> THEN 0 ELSE Head(cm)[c] + SumLayers(Tail(cm), c)

CatSum(cm) == [c \in Cells |-> SumLayers(cm, c)]

ZeroChannels(n) == [i \in 1..n |-> Zeros]

\* ablation is None: the full layout
FullLayout(self, num_extra_channels) ==
    <<self.room_mask, self.wall_mask, CatSum(self.cat_map), self.height_map,
      self.sin_map, self.cos_map, self.door_map, self.window_map>>
    \o [i \in 1..Len(self.categories) |-> self.cat_map[i]]
    \o ZeroChannels(num_extra_channels)

\* ablation == "depth"
DepthLayout(self, num_extra_channels) ==
    <<self.height_map>> \o ZeroChannels(num_extra_channels)

\* ablation == "basic"
BasicLayout(self, num_extra_channels) ==
    <<self.room_mask, self.wall_mask, CatSum(self.cat_map), self.height_map,
      self.sin_map, self.cos_map>>
    \o ZeroChannels(num_extra_channels)

\* door_map and window_map written to each other's channel
get_composite_swapped(self, num_extra_channels, ablation) ==
    IF ablation = "None"
    THEN [err |-> "none",
          ret |-> [FullLayout(self, num_extra_channels) EXCEPT
                     ![7] = self.window_map, ![8] = self.door_map]]
    ELSE IF ablation = "depth"
    THEN [err |-> "none", ret |-> DepthLayout(self, num_extra_channels)]
    ELSE IF ablation = "basic"
    THEN [err |-> "none", ret |-> BasicLayout(self, num_extra_channels)]
    ELSE [err |-> "NotImplementedError", ret |-> <<>>]

\* an unknown ablation taken for None instead of refused
get_composite_lenient(self, num_extra_channels, ablation) ==
    IF ablation = "depth"
    THEN [err |-> "none", ret |-> DepthLayout(self, num_extra_channels)]
    ELSE IF ablation = "basic"
    THEN [err |-> "none", ret |-> BasicLayout(self, num_extra_channels)]
    ELSE [err |-> "none", ret |-> FullLayout(self, num_extra_channels)]

get_composite(self, num_extra_channels, ablation) ==
    IF ablation = "None"
    THEN [err |-> "none", ret |-> FullLayout(self, num_extra_channels)]
    ELSE IF ablation = "depth"
    THEN [err |-> "none", ret |-> DepthLayout(self, num_extra_channels)]
    ELSE IF ablation = "basic"
    THEN [err |-> "none", ret |-> BasicLayout(self, num_extra_channels)]
    ELSE [err |-> "NotImplementedError", ret |-> <<>>]

\* the tensor add_and_get_composite builds.  It is a fresh tensor: every
\* composite[i] = ... copies into it, and composite[i][update] = ... writes
\* the copy
PreviewComposite(self, to_add, category, sin, cos, num_extra_channels) ==
    LET update == [c \in Cells |-> to_add[c] > self.height_map[c]]
        mask == [c \in Cells |-> IF to_add[c] > 0 THEN Half ELSE 0]
        n == Len(self.categories) + num_extra_channels + 8
        composite ==
            [i \in 1..n |->
                IF i = 1 THEN self.room_mask
                ELSE IF i = 2 THEN self.wall_mask
                ELSE IF i = 3 THEN
                    [c \in Cells |-> SumLayers(self.cat_map, c) + mask[c]]
                ELSE IF i = 4 THEN
                    [c \in Cells |->
                        IF update[c] THEN to_add[c] ELSE self.height_map[c]]
                ELSE IF i = 5 THEN
                    [c \in Cells |->
                        IF update[c] THEN Enc(sin) ELSE self.sin_map[c]]
                ELSE IF i = 6 THEN
                    [c \in Cells |->
                        IF update[c] THEN Enc(cos) ELSE self.cos_map[c]]
                ELSE IF i = 7 THEN self.door_map
                ELSE IF i = 8 THEN self.window_map
                ELSE IF i <= 8 + Len(self.categories)
                THEN self.cat_map[i - 8]
                ELSE Zeros]
    IN [composite EXCEPT ![8 + category + 1] =
           [c \in Cells |-> composite[8 + category + 1][c] + mask[c]]]

\* composite[3] sharing height_map's storage, so that the write of the
\* candidate's heights reaches the composite's own height_map
add_and_get_composite_aliased(self, to_add, category, sin, cos, num_extra_channels, temporary) ==
    IF ~temporary
    THEN [err |-> "NotImplementedError", ret |-> <<>>, self |-> self]
    ELSE [err |-> "none",
          ret |-> PreviewComposite(self, to_add, category, sin, cos,
                                   num_extra_channels),
          self |-> [self EXCEPT !.height_map =
                       PreviewComposite(self, to_add, category, sin, cos,
                                        num_extra_channels)[4]]]

\* composite[2] = self.cat_map.sum(0), the candidate's mask forgotten
add_and_get_composite_unmasked(self, to_add, category, sin, cos, num_extra_channels, temporary) ==
    IF ~temporary
    THEN [err |-> "NotImplementedError", ret |-> <<>>, self |-> self]
    ELSE [err |-> "none",
          ret |-> [PreviewComposite(self, to_add, category, sin, cos,
                                    num_extra_channels)
                     EXCEPT ![3] = CatSum(self.cat_map)],
          self |-> self]

\* A returned tensor is a handle: alias says whether it shares the storage
\* of self.cat_map, value is its own storage when it does not.
\* return self.cat_map: the stack itself handed out
get_cat_map_shared(self) == [alias |-> TRUE, value |-> self.cat_map]

\* return self.cat_map.clone()
get_cat_map(self) == [alias |-> FALSE, value |-> self.cat_map]

\* the "if not temporary: raise" guard left out, the candidate being added
\* for good when the preview is not temporary
add_and_get_composite_persisting(self, to_add, category, sin, cos, num_extra_channels, temporary) ==
    [err |-> "none",
     ret |-> PreviewComposite(self, to_add, category, sin, cos,
                              num_extra_channels),
     self |-> IF temporary THEN self
              ELSE add_height_map(self, to_add, category, sin, cos)]

add_and_get_composite(self, to_add, category, sin, cos, num_extra_channels, temporary) ==
    IF ~temporary
    THEN [err |-> "NotImplementedError", ret |-> <<>>, self |-> self]
    ELSE [err |-> "none",
          ret |-> PreviewComposite(self, to_add, category, sin, cos,
                                   num_extra_channels),
          self |-> self]

(***************************************************************************)
(* Inputs: the rooms, door/window nodes and object nodes the calls draw    *)
(* from.  Heights are doubled: hv = 4 is a height of 2.0.                  *)
(***************************************************************************)
Patch(xsize, ysize, hv, hole) ==
    [xsize |-> xsize, ysize |-> ysize, hv |-> hv, hole |-> hole]

\* transform, of which only the entries 0 and 8 are read
Transform(a, b) == (0 :> a) @@ (8 :> b)

\* the scenes a composite is created from: an empty room; a room with a wall
\* along row 0 and floor elsewhere, with a door and a window; and a room
\* whose second door/window node does not fit
EmptyRoom == [floor |-> Zeros, wall |-> Zeros]
WalledRoom ==
    [floor |-> [c \in Cells |-> IF c[1] = 0 THEN 0 ELSE 1],
     wall |-> [c \in Cells |-> IF c[1] = 0 THEN 5 ELSE 0]]

\* a door at bbox_min (-0.5, 0, 0)
Door0 ==
    [height_map |-> Patch(1, 2, 4, FALSE), bbox_min |-> <<-1, 0, 0>>,
     category |-> "door"]
\* a window as wide as the sentinel, at bbox_min (1.0, 0, 2.0)
Window0 ==
    [height_map |-> Patch(1, Sentinel, 6, FALSE), bbox_min |-> <<2, 0, 4>>,
     category |-> "window"]
\* a door whose two rows start at the last row
DoorBad ==
    [height_map |-> Patch(2, 1, 4, FALSE),
     bbox_min |-> <<2 * (S - 1), 0, 0>>, category |-> "door"]

Scenes ==
    { [room |-> EmptyRoom, door_window_nodes |-> <<>>],
      [room |-> WalledRoom, door_window_nodes |-> <<Door0, Window0>>],
      [room |-> EmptyRoom, door_window_nodes |-> <<Window0, DoorBad>>] }

\* RenderedScene.categories: NumCats names
Categories == [i \in 1..NumCats |-> i]

ObjectNode(h, bmin, t, cat, hobb) ==
    [height_map |-> h, bbox_min |-> bmin, transform |-> t, category |-> cat,
     height_map_obb |-> hobb, bbox_min_obb |-> bmin]

\* 1 x 1 at (0.5, 0, -1.5): clamped to cell (0, 0); sin 0, cos 1
NodeA ==
    ObjectNode(Patch(1, 1, 2, FALSE), <<1, 0, -3>>, Transform(1, 0), 0,
               Patch(1, 1, 2, FALSE))
\* 1 x 1 at the last cell; sin 1, cos 0
NodeB ==
    ObjectNode(Patch(1, 1, 2, FALSE), <<2 * (S - 1), 0, 2 * (S - 1) + 1>>,
               Transform(0, 2), 0, Patch(1, 1, 2, FALSE))
\* 2 x 2 with an empty cell, at (0, 0, 0); its box is full; sin 1, cos 0
NodeC ==
    ObjectNode(Patch(2, 2, 2, TRUE), <<0, 0, 0>>, Transform(0, 2),
               NumCats - 1, Patch(2, 2, 2, FALSE))
\* sentinel rows x 1 at (3.0, 0, 1.0); sin 0, cos 1
NodeD ==
    ObjectNode(Patch(Sentinel, 1, 4, FALSE), <<6, 0, 2>>, Transform(1, 0),
               NumCats - 1, Patch(Sentinel, 1, 4, FALSE))
\* 2 x 1 starting at the last row: does not fit
NodeE ==
    ObjectNode(Patch(2, 1, 2, FALSE), <<2 * (S - 1), 0, 0>>,
               Transform(1, 0), 0, Patch(2, 1, 2, FALSE))

\* the object nodes offered to add_node and add_node_obb
Nodes == {NodeA, NodeB, NodeC, NodeD, NodeE}
\* the lists offered to add_nodes and add_nodes_obb, of at most n nodes
NodeLists(n) == UNION { [1..k -> {NodeC, NodeE}] : k \in 0..n }
\* the candidates previewed
Candidates == {NodeA, NodeC}
\* the num_extra_channels asked for
Extras == {0, MaxExtra}

Ablations == {"None", "depth", "basic", "other"}

(***************************************************************************)
(* The record of the pastes made: what each successful add wrote           *)
(***************************************************************************)
Entry(self, node, obb) ==
    LET h == IF obb THEN node.height_map_obb ELSE node.height_map
        bmin == IF obb THEN node.bbox_min_obb ELSE node.bbox_min
        xmin == IF obb THEN ObbXmin(node) ELSE NodeXmin(node)
        ymin == IF obb THEN ObbYmin(node) ELSE NodeYmin(node)
        after == IF obb THEN add_node_obb(self, node).self
                 ELSE add_node(self, node).self
        sc == get_transformation(node.transform)
    IN [obb |-> obb, h |-> h, bmin |-> <<bmin[1], bmin[3]>>,
        xmin |-> xmin, ymin |-> ymin, to_add |-> Paste(h, xmin, ymin),
        category |-> node.category, sin |-> sc[1], cos |-> sc[2],
        raised |-> {c \in Cells : after.height_map[c] > self.height_map[c]}]

RECURSIVE Trail(_, _, _)
\* the entries of the nodes of a list up to the first one refused
Trail(self, nodes, obb) ==
    IF nodes = <<>> THEN <<>>
    ELSE LET r == IF obb THEN add_node_obb(self, Head(nodes))
                  ELSE add_node(self, Head(nodes))
         IN IF r.err # "none" THEN <<>>
            ELSE <<Entry(self, Head(nodes), obb)>>
                 \o Trail(r.self, Tail(nodes), obb)

RECURSIVE SeedTrail(_)
SeedTrail(nodes) ==
    IF nodes = <<>> THEN <<>>
    ELSE LET n == Head(nodes)
             xmin == Offset(n.bbox_min[1], n.height_map.xsize)
             ymin == Offset(n.bbox_min[3], n.height_map.ysize)
         IN <<[h |-> n.height_map, bmin |-> <<n.bbox_min[1], n.bbox_min[3]>>,
               xmin |-> xmin, ymin |-> ymin,
               to_add |-> Paste(n.height_map, xmin, ymin),
               category |-> n.category]>> \o SeedTrail(Tail(nodes))

(***************************************************************************)
(* The calls                                                               *)
(***************************************************************************)
SetSelf(self) ==
    /\ categories' = self.categories
    /\ room_mask' = self.room_mask
    /\ wall_mask' = self.wall_mask
    /\ height_map' = self.height_map
    /\ cat_map' = self.cat_map
    /\ sin_map' = self.sin_map
    /\ cos_map' = self.cos_map
    /\ door_map' = self.door_map
    /\ window_map' = self.window_map

Init ==
    /\ built = FALSE
    /\ categories = <<>>
    /\ room_mask = Zeros
    /\ wall_mask = Zeros
    /\ height_map = Zeros
    /\ cat_map = <<>>
    /\ sin_map = Zeros
    /\ cos_map = Zeros
    /\ door_map = Zeros
    /\ window_map = Zeros
    /\ call = [op |-> "new", err |-> "none"]
    /\ ret = <<>>
    /\ seed_log = <<>>
    /\ log = <<>>
    /\ height0 = Zeros
    /\ held = <<>>
    /\ cls_categories = <<>>
    /\ cat_to_index = <<>>
    /\ current_data_dir = "None"
    /\ rng = 0
    /\ loaded = <<>>
    /\ kept = <<>>

\* RenderedComposite(categories, floor, wall, door_window_nodes); when a
\* door/window paste is refused the constructor raises and no object exists
Construct ==
    /\ UNCHANGED <<held, loader>>
    /\ ~built
    /\ \E scene \in Scenes :
         LET dw == scene.door_window_nodes
             r == RenderedComposite(Categories, scene.room.floor,
                                    scene.room.wall, dw)
         IN IF r.err = "none"
            THEN /\ built' = TRUE
                 /\ SetSelf(r.self)
                 /\ seed_log' = SeedTrail(dw)
                 /\ height0' = r.self.height_map
                 /\ call' = [op |-> "__init__", err |-> "none",
                             floor |-> scene.room.floor,
                             wall |-> scene.room.wall]
                 /\ UNCHANGED <<ret, log>>
            ELSE /\ call' = [op |-> "__init__", err |-> r.err,
                             floor |-> scene.room.floor,
                             wall |-> scene.room.wall]
                 /\ UNCHANGED <<built, grids, categories, ret, seed_log, log,
                                height0>>

AddNode ==
    /\ UNCHANGED <<held, loader>>
    /\ built
    /\ Len(log) < MaxAdds
    /\ \E node \in Nodes :
         LET r == add_node(Self, node)
         IN /\ SetSelf(r.self)
            /\ log' = log \o Trail(Self, <<node>>, FALSE)
            /\ call' = [op |-> "add_node", err |-> r.err, node |-> node]
            /\ ret' = <<>>
            /\ UNCHANGED <<built, seed_log, height0>>

AddNodeObb ==
    /\ UNCHANGED <<held, loader>>
    /\ built
    /\ Len(log) < MaxAdds
    /\ \E node \in Nodes :
         LET r == add_node_obb(Self, node)
         IN /\ SetSelf(r.self)
            /\ log' = log \o Trail(Self, <<node>>, TRUE)
            /\ call' = [op |-> "add_node_obb", err |-> r.err, node |-> node]
            /\ ret' = <<>>
            /\ UNCHANGED <<built, seed_log, height0>>

AddNodes ==
    /\ UNCHANGED <<held, loader>>
    /\ built
    /\ \E nodes \in NodeLists(MaxAdds - Len(log)) :
         LET r == add_nodes(Self, nodes)
         IN /\ SetSelf(r.self)
            /\ log' = log \o Trail(Self, nodes, FALSE)
            /\ call' = [op |-> "add_nodes", err |-> r.err]
            /\ ret' = <<>>
            /\ UNCHANGED <<built, seed_log, height0>>

AddNodesObb ==
    /\ UNCHANGED <<held, loader>>
    /\ built
    /\ \E nodes \in NodeLists(MaxAdds - Len(log)) :
         LET r == add_nodes_obb(Self, nodes)
         IN /\ SetSelf(r.self)
            /\ log' = log \o Trail(Self, nodes, TRUE)
            /\ call' = [op |-> "add_nodes_obb", err |-> r.err]
            /\ ret' = <<>>
            /\ UNCHANGED <<built, seed_log, height0>>

\* the caller pastes the candidate node into a full-size buffer itself
AddAndGetComposite ==
    /\ UNCHANGED <<held, loader>>
    /\ built
    /\ \E node \in Candidates, k \in Extras, temporary \in BOOLEAN :
         LET sc == get_transformation(node.transform)
             r == add_and_get_composite(
                      Self,
                      Paste(node.height_map, NodeXmin(node), NodeYmin(node)),
                      node.category, sc[1], sc[2], k, temporary)
         IN /\ SetSelf(r.self)
            /\ ret' = r.ret
            /\ call' = [op |-> "add_and_get_composite", err |-> r.err,
                        node |-> node, k |-> k, temporary |-> temporary]
            /\ UNCHANGED <<built, seed_log, log, height0>>

GetComposite ==
    /\ UNCHANGED <<held, loader>>
    /\ built
    /\ \E k \in Extras, ablation \in Ablations :
         LET r == get_composite(Self, k, ablation)
         IN /\ ret' = r.ret
            /\ call' = [op |-> "get_composite", err |-> r.err, k |-> k,
                        ablation |-> ablation]
            /\ UNCHANGED <<built, grids, categories, seed_log, log, height0>>

Next ==
    \/ Construct
    \/ AddNode
    \/ AddNodeObb
    \/ AddNodes
    \/ AddNodesObb
    \/ AddAndGetComposite
    \/ GetComposite

Spec == Init /\ [][Next]_vars

(***************************************************************************)
(* Deeper stacks: one more add_node than MaxAdds, of the nodes that cover  *)
(* cell (0, 0), and the composite read after them.                         *)
(***************************************************************************)
StackNode ==
    /\ UNCHANGED <<held, loader>>
    /\ built
    /\ Len(log) < MaxAdds + 1
    /\ \E node \in Candidates :
         LET r == add_node(Self, node)
         IN /\ SetSelf(r.self)
            /\ log' = log \o Trail(Self, <<node>>, FALSE)
            /\ call' = [op |-> "add_node", err |-> r.err, node |-> node]
            /\ ret' = <<>>
            /\ UNCHANGED <<built, seed_log, height0>>

GetCatMap ==
    /\ built
    /\ held' = get_cat_map(Self)
    /\ call' = [op |-> "get_cat_map", err |-> "none"]
    /\ ret' = <<>>
    /\ UNCHANGED <<built, grids, categories, seed_log, log, height0, loader>>

\* the holder of a returned stack writes into it, in place:
\* held[0][0, 0] = 3.5
WriteHeld ==
    /\ built
    /\ held # <<>>
    /\ IF held.alias
       THEN /\ cat_map' = [cat_map EXCEPT ![1][<<0, 0>>] = 7]
            /\ UNCHANGED held
       ELSE /\ held' = [held EXCEPT !.value[1][<<0, 0>>] = 7]
            /\ UNCHANGED cat_map
    /\ call' = [op |-> "write", err |-> "none"]
    /\ ret' = <<>>
    /\ UNCHANGED <<built, categories, room_mask, wall_mask, height_map,
                   sin_map, cos_map, door_map, window_map, seed_log, log,
                   height0, loader>>

NextStack ==
    \/ Construct
    \/ StackNode
    \/ GetComposite

SpecStack == Init /\ [][NextStack]_vars

NextCopy ==
    \/ Construct
    \/ StackNode
    \/ GetCatMap
    \/ WriteHeld

SpecCopy == Init /\ [][NextCopy]_vars

(***************************************************************************)
(* RenderedScene: the loader.  The files under the data root, the category *)
(* map and the random module are what it reads.                            *)
(***************************************************************************)
\* the values the state of the random module takes
RngMod == 4

\* random.seed(a): the state is a function of a alone
Seeded(a) == a % RngMod
\* one draw: the state moves on
Advance(r) == (r + 1) % RngMod
\* the integer below n the state r yields
Randbelow(r, n) == r % n

RECURSIVE ShuffleFrom(_, _, _)
\* for i in reversed(range(1, len(x))): j = randbelow(i + 1); swap x[i], x[j]
\* (i counts from 1 here)
ShuffleFrom(x, i, r) ==
    IF i < 2 THEN [list |-> x, rng |-> r]
    ELSE LET j == Randbelow(r, i) + 1
         IN ShuffleFrom([x EXCEPT ![i] = x[j], ![j] = x[i]], i - 1, Advance(r))

\* random.shuffle(x)
Shuffle(x, r) == ShuffleFrom(x, Len(x), r)

\* Python's None, and an int n where None can stand too, as <<n>>
None == <<>>

\* if seed: random.seed(seed)
SeedRandom(r, seed) ==
    IF seed # None /\ seed[1] # 0 THEN Seeded(seed[1]) ELSE r

\* the data directories under the data root
DataDirs == {"bedroom", "living"}

\* the lines of {data_dir}/final_categories_frequency, each split into its
\* tokens
final_categories_frequency(data_dir) ==
    IF data_dir = "bedroom"
    THEN << <<"bed", "40">>, <<"door", "31">>, <<"lamp", "12">>,
            <<"window", "9">>, <<"chair", "2">> >>
    ELSE << <<"window", "25">>, <<"lamp", "20">>, <<"sofa", "7">>,
            <<"door", "7">> >>

\* ObjectCategories.get_final_category
get_final_category(modelId) ==
    CASE modelId \in {"bed_a", "bed_b"} -> "bed"
      [] modelId = "lamp_a" -> "lamp"
      [] modelId = "chair_a" -> "chair"
      [] modelId = "sofa_a" -> "sofa"
      [] modelId \in {"door_a", "door_b"} -> "door"
      [] modelId = "window_a" -> "window"

\* a node of a room file: its id and model, and the patch and bbox_min the
\* renderer stored with it
RawNode(id, modelId) ==
    LET proto == IF get_final_category(modelId) = "door" THEN Door0
                 ELSE IF get_final_category(modelId) = "window" THEN Window0
                 ELSE NodeA
    IN [id |-> id, modelId |-> modelId, height_map |-> proto.height_map,
        bbox_min |-> proto.bbox_min]

\* fname: the index, with the rotation when it is not 0
FName(index, rotation) ==
    IF rotation # 0 THEN <<index, rotation>> ELSE <<index>>

\* {data_dir}/{fname}.pkl: (floor, wall, nodes), room; None when absent
RoomFile(data_dir, fname) ==
    IF data_dir = "bedroom" /\ fname = <<0>>
    THEN [floor |-> WalledRoom.floor, wall |-> WalledRoom.wall,
          nodes |-> <<RawNode(1, "lamp_a"), RawNode(2, "door_a"),
                      RawNode(3, "bed_a"), RawNode(4, "window_a"),
                      RawNode(5, "chair_a"), RawNode(6, "door_b")>>,
          room |-> "bedroom_0"]
    ELSE IF data_dir = "bedroom" /\ fname = <<0, 1>>
    THEN [floor |-> WalledRoom.floor, wall |-> WalledRoom.wall,
          nodes |-> <<RawNode(1, "door_b"), RawNode(2, "bed_b"),
                      RawNode(3, "lamp_a")>>,
          room |-> "bedroom_0"]
    ELSE IF data_dir = "living" /\ fname = <<0>>
    THEN [floor |-> EmptyRoom.floor, wall |-> EmptyRoom.wall,
          nodes |-> <<RawNode(1, "sofa_a"), RawNode(2, "window_a"),
                      RawNode(3, "lamp_a")>>,
          room |-> "living_0"]
    ELSE None

\* the index built when there is none and never again, whatever data_dir is
LoadCategories_once(cls, data_dir) ==
    IF cls.categories = None
    THEN LET lines == final_categories_frequency(data_dir)
             cats == [i \in 1..Len(lines) |-> lines[i][1]]
             kept_cats == SelectSeq(cats, LAMBDA c : c \notin {"window", "door"})
         IN [categories |-> kept_cats,
             cat_to_index |->
                 [c \in {kept_cats[i] : i \in 1..Len(kept_cats)} |->
                     (CHOOSE i \in 1..Len(kept_cats) : kept_cats[i] = c) - 1],
             current_data_dir |-> data_dir,
             rebuilt |-> TRUE]
    ELSE [categories |-> cls.categories, cat_to_index |-> cls.cat_to_index,
          current_data_dir |-> cls.current_data_dir, rebuilt |-> FALSE]

\* lines 73-90: RenderedScene.categories, cat_to_index and current_data_dir
\* as the class holds them after the check of the cache
LoadCategories(cls, data_dir) ==
    IF cls.categories = None \/ cls.current_data_dir # data_dir
    THEN LET lines == final_categories_frequency(data_dir)
             cats == [i \in 1..Len(lines) |-> lines[i][1]]
             kept_cats == SelectSeq(cats, LAMBDA c : c \notin {"window", "door"})
         IN [categories |-> kept_cats,
             cat_to_index |->
                 [c \in {kept_cats[i] : i \in 1..Len(kept_cats)} |->
                     (CHOOSE i \in 1..Len(kept_cats) :
                         /\ kept_cats[i] = c
                         /\ \A j \in (i + 1)..Len(kept_cats) : kept_cats[j] # c)
                     - 1],
             current_data_dir |-> data_dir,
             rebuilt |-> TRUE]
    ELSE [categories |-> cls.categories, cat_to_index |-> cls.cat_to_index,
          current_data_dir |-> cls.current_data_dir, rebuilt |-> FALSE]

RECURSIVE Partition_gated(_, _, _, _)
\* "if load_objects:" around the whole body of the loop: doors and windows
\* are dropped with the objects
Partition_gated(nodes, index_of, load_objects, acc) ==
    IF nodes = <<>> THEN acc
    ELSE LET node == Head(nodes)
             category == get_final_category(node.modelId)
         IN IF ~load_objects
            THEN Partition_gated(Tail(nodes), index_of, load_objects, acc)
            ELSE IF category \in {"door", "window"}
            THEN Partition_gated(
                     Tail(nodes), index_of, load_objects,
                     [acc EXCEPT !.door_window_nodes =
                         Append(@, node @@ [category |-> category])])
            ELSE IF category \notin DOMAIN index_of
            THEN [acc EXCEPT !.err = "KeyError"]
            ELSE Partition_gated(
                     Tail(nodes), index_of, load_objects,
                     [acc EXCEPT !.object_nodes =
                         Append(@, node @@ [category |-> index_of[category]])])

RECURSIVE Partition(_, _, _, _)
\* the loop over nodes, from the lists acc built so far; a category that is
\* not a key of cat_to_index raises KeyError
Partition(nodes, index_of, load_objects, acc) ==
    IF nodes = <<>> THEN acc
    ELSE LET node == Head(nodes)
             category == get_final_category(node.modelId)
         IN IF category \in {"door", "window"}
            THEN Partition(
                     Tail(nodes), index_of, load_objects,
                     [acc EXCEPT !.door_window_nodes =
                         Append(@, node @@ [category |-> category])])
            ELSE IF load_objects
            THEN IF category \notin DOMAIN index_of
                 THEN [acc EXCEPT !.err = "KeyError"]
                 ELSE Partition(
                          Tail(nodes), index_of, load_objects,
                          [acc EXCEPT !.object_nodes =
                              Append(@, node @@ [category |-> index_of[category]])])
            ELSE Partition(Tail(nodes), index_of, load_objects, acc)

\* RenderedScene(index, data_dir, data_root_dir, shuffle, load_objects, seed,
\* rotation), under the one data root the process is configured with: the
\* class variables and the random state it leaves, and the object it builds
RenderedScene(cls, r, index, data_dir, shuffle, load_objects, seed, rotation) ==
    LET r1 == SeedRandom(r, seed)
        cls1 == LoadCategories(cls, data_dir)
        file == RoomFile(data_dir, FName(index, rotation))
        parts == Partition(file.nodes, cls1.cat_to_index, load_objects,
                           [err |-> "none", object_nodes |-> <<>>,
                            door_window_nodes |-> <<>>])
        sh == IF shuffle THEN Shuffle(parts.object_nodes, r1)
              ELSE [list |-> parts.object_nodes, rng |-> r1]
    IN IF file = None
       THEN [err |-> "FileNotFoundError", cls |-> cls1, rng |-> r1,
             self |-> None]
       ELSE IF parts.err # "none"
       THEN [err |-> parts.err, cls |-> cls1, rng |-> r1, self |-> None]
       ELSE [err |-> "none", cls |-> cls1, rng |-> sh.rng,
             self |-> [floor |-> file.floor, wall |-> file.wall,
                       room |-> file.room, index |-> index,
                       rotation |-> rotation,
                       object_nodes |-> sh.list,
                       door_window_nodes |-> parts.door_window_nodes]]

\* the class variables as one value
Cls ==
    [categories |-> cls_categories, cat_to_index |-> cat_to_index,
     current_data_dir |-> current_data_dir]

\* the rooms asked for: two files of one directory, one of the other, and
\* one that is absent
Requests ==
    { [data_dir |-> "bedroom", index |-> 0, rotation |-> 0],
      [data_dir |-> "bedroom", index |-> 0, rotation |-> 1],
      [data_dir |-> "living", index |-> 0, rotation |-> 0],
      [data_dir |-> "living", index |-> 1, rotation |-> 0] }

\* the seeds passed
Seeds == {None, <<0>>, <<1>>}

\* a RenderedScene its caller keeps while other loads go on, with the
\* arguments it was loaded with
Snapshot(c, self) ==
    [data_dir |-> c.data_dir, index |-> c.index, rotation |-> c.rotation,
     seed |-> c.seed, object_nodes |-> self.object_nodes, floor |-> self.floor,
     wall |-> self.wall, door_window_nodes |-> self.door_window_nodes]

Load ==
    /\ \E req \in Requests, shuffle \in BOOLEAN, load_objects \in BOOLEAN, seed \in Seeds :
         LET r == RenderedScene(Cls, rng, req.index, req.data_dir, shuffle,
                                load_objects, seed, req.rotation)
             c == [op |-> "RenderedScene", err |-> r.err,
                   index |-> req.index, data_dir |-> req.data_dir,
                   rotation |-> req.rotation, shuffle |-> shuffle,
                   load_objects |-> load_objects, seed |-> seed,
                   rebuilt |-> r.cls.rebuilt]
         IN /\ cls_categories' = r.cls.categories
            /\ cat_to_index' = r.cls.cat_to_index
            /\ current_data_dir' = r.cls.current_data_dir
            /\ rng' = r.rng
            /\ loaded' = r.self
            /\ call' = c
            /\ \/ UNCHANGED kept
               \/ /\ kept = None
                  /\ r.err = "none" /\ shuffle /\ load_objects
                  /\ seed # None
                  /\ kept' = Snapshot(c, r.self)
    /\ ret' = <<>>
    /\ UNCHANGED <<built, grids, categories, seed_log, log, height0, held>>

\* some other code draws from the random module
Draw ==
    /\ rng' = Advance(rng)
    /\ call' = [op |-> "random", err |-> "none"]
    /\ UNCHANGED <<built, grids, categories, ret, seed_log, log, height0, held,
                   cls_categories, cat_to_index, current_data_dir, loaded,
                   kept>>

NextScene ==
    \/ Load
    \/ Draw

SpecScene == Init /\ [][NextScene]_vars

(***************************************************************************)
(* Scenes kept across loads, and the composites created from them          *)
(***************************************************************************)
\* RenderedScene.create_composite: the categories are the class's, as they
\* stand at the call
create_composite(cls, self) ==
    RenderedComposite(cls.categories, self.floor, self.wall,
                      self.door_window_nodes)

\* a load in the stored order, of which the caller may keep the scene
LoadStored ==
    /\ \E req \in Requests, load_objects \in BOOLEAN :
         LET r == RenderedScene(Cls, rng, req.index, req.data_dir, FALSE,
                                load_objects, None, req.rotation)
             c == [op |-> "RenderedScene", err |-> r.err,
                   index |-> req.index, data_dir |-> req.data_dir,
                   rotation |-> req.rotation, shuffle |-> FALSE,
                   load_objects |-> load_objects, seed |-> None,
                   rebuilt |-> r.cls.rebuilt]
         IN /\ cls_categories' = r.cls.categories
            /\ cat_to_index' = r.cls.cat_to_index
            /\ current_data_dir' = r.cls.current_data_dir
            /\ rng' = r.rng
            /\ loaded' = r.self
            /\ call' = c
            /\ \/ UNCHANGED kept
               \/ /\ r.err = "none"
                  /\ kept' = Snapshot(c, r.self)
    /\ ret' = <<>>
    /\ UNCHANGED <<built, grids, categories, seed_log, log, height0, held>>

\* kept.create_composite(): a new RenderedComposite takes the place of the
\* one created before
CreateComposite ==
    /\ kept # None
    /\ LET r == create_composite(Cls, kept)
       IN IF r.err = "none"
          THEN /\ built' = TRUE
               /\ SetSelf(r.self)
               /\ seed_log' = SeedTrail(kept.door_window_nodes)
               /\ height0' = r.self.height_map
               /\ log' = <<>>
          ELSE UNCHANGED <<built, grids, categories, seed_log, log, height0>>
    /\ call' = [op |-> "create_composite",
                err |-> create_composite(Cls, kept).err]
    /\ ret' = <<>>
    /\ UNCHANGED <<held, loader>>

NextCreate ==
    \/ LoadStored
    \/ CreateComposite

SpecCreate == Init /\ [][NextCreate]_vars

(***************************************************************************)
(* Properties                                                              *)
(***************************************************************************)
AddOps == {"add_node", "add_node_obb", "add_nodes", "add_nodes_obb"}

\* the buffer the caller of the last add_and_get_composite passed
CandidateBuffer(node) ==
    Paste(node.height_map, NodeXmin(node), NodeYmin(node))

\* the entries the step under way appends to log
NewEntries == SubSeq(log', Len(log) + 1, Len(log'))

RECURSIVE MaxOver(_, _, _)
\* the largest of v and the buffers of the entries at cell c
MaxOver(v, entries, c) ==
    IF entries = <<>> THEN v
    ELSE MaxOver(Max(v, Head(entries).to_add[c]), Tail(entries), c)

\* C1: every add_and_get_composite call, whatever its arguments, leaves
\* room_mask, wall_mask, height_map, cat_map, sin_map, cos_map, door_map and
\* window_map as they were, so that get_composite returns after the call
\* what it returned before it.
C1_PreviewLeavesState ==
    [][call'.op = "add_and_get_composite" =>
          /\ UNCHANGED grids
          /\ \A k \in Extras :
                get_composite(Self', k, "None") = get_composite(Self, k, "None")
      ]_vars

\* a preview of a candidate that shows in the tensor returned, on a composite
\* that already holds an object
C1_Witness ==
    /\ call.op = "add_and_get_composite"
    /\ call.err = "none"
    /\ Len(log) > 0
    /\ ret # get_composite(Self, call.k, "None").ret
    /\ ret[4] # height_map

\* C2: after every add_node / add_node_obb / add_nodes / add_nodes_obb call
\* height_map is at every cell at least what it was, and is the larger of
\* what it was and the buffers the call placed.
C2_HeightWins ==
    [][call'.op \in AddOps =>
          \A c \in Cells :
             /\ height_map'[c] >= height_map[c]
             /\ height_map'[c] = MaxOver(height_map[c], NewEntries, c)
      ]_vars

\* an add that raised one cell and, being lower there, left another cell it
\* covers at its height
C2_Witness ==
    /\ call.op \in {"add_node", "add_node_obb"}
    /\ call.err = "none"
    /\ log # <<>>
    /\ \E c, d \in Cells :
          /\ c \in log[Len(log)].raised
          /\ log[Len(log)].to_add[d] > 0
          /\ log[Len(log)].to_add[d] < height_map[d]

\* the adds that raised height_map at cell c
Raisers(c) == {i \in 1..Len(log) : c \in log[i].raised}
Latest(I) == CHOOSE i \in I : \A j \in I : j <= i

\* C3: at every cell some add raised, sin_map and cos_map hold (sin+1)/2 and
\* (cos+1)/2 of the add that raised it last; where no add raised the height
\* they are as constructed; and an object strictly taller at a cell than the
\* seeded height and than every other object added has its orientation
\* there, in whatever order the objects were added.
C3_Orientation ==
    \A c \in Cells :
       /\ Raisers(c) # {} =>
             /\ sin_map[c] = Enc(log[Latest(Raisers(c))].sin)
             /\ cos_map[c] = Enc(log[Latest(Raisers(c))].cos)
       /\ Raisers(c) = {} => sin_map[c] = 0 /\ cos_map[c] = 0
       /\ \A i \in 1..Len(log) :
             (/\ log[i].to_add[c] > height0[c]
              /\ \A j \in 1..Len(log) :
                    j # i => log[j].to_add[c] < log[i].to_add[c])
             => /\ sin_map[c] = Enc(log[i].sin)
                /\ cos_map[c] = Enc(log[i].cos)

\* a shorter object of another orientation added over a taller one: the
\* cell keeps the taller one's orientation
C3_Witness ==
    /\ Len(log) = 2
    /\ \E c \in Cells :
          /\ c \in log[1].raised
          /\ log[2].to_add[c] > 0
          /\ log[2].to_add[c] < log[1].to_add[c]
          /\ Enc(log[2].sin) # Enc(log[1].sin)
          /\ Enc(log[2].cos) # Enc(log[1].cos)
          /\ sin_map[c] = Enc(log[1].sin)

\* C4: cat_map[c] is at every cell 0.5 times the number of objects of
\* category c added whose pasted patch is nonzero there, whether or not they
\* raised the height.
C4_CategorySum ==
    built =>
       \A k \in 1..Len(categories) : \A c \in Cells :
          cat_map[k][c] =
             Half * Cardinality({i \in 1..Len(log) :
                        log[i].category = k - 1 /\ log[i].to_add[c] > 0})

\* two objects of one category over the same cell, the second not raising
\* it: the cell holds 1.0
C4_Witness ==
    /\ Len(log) = 2
    /\ \E c \in Cells :
          /\ log[1].category = log[2].category
          /\ cat_map[log[1].category + 1][c] = One
          /\ c \notin log[2].raised

\* C5: the tensor add_and_get_composite returns is, channel by channel, the
\* one get_composite(k) returns once add_height_map has been applied with
\* the same buffer, category, sin and cos.
C5_PreviewIsCommit ==
    [][(call'.op = "add_and_get_composite" /\ call'.err = "none") =>
          ret' = get_composite(
                     add_height_map(
                         Self, CandidateBuffer(call'.node),
                         call'.node.category,
                         get_transformation(call'.node.transform)[1],
                         get_transformation(call'.node.transform)[2]),
                     call'.k, "None").ret
      ]_vars

\* a preview whose candidate raises one cell and is present, but not
\* taller, at another
C5_Witness ==
    /\ call.op = "add_and_get_composite"
    /\ call.err = "none"
    /\ \E c, d \in Cells :
          /\ ret[4][c] > height_map[c]
          /\ CandidateBuffer(call.node)[d] > 0
          /\ ret[4][d] = height_map[d]
          /\ ret[3][d] > CatSum(cat_map)[d]

\* C6: get_composite(k) with no ablation returns 8 + C + k channels: room
\* mask, wall mask, the sum of the category layers (which is the sum of the
\* channels 8..8+C-1), height map, sin map, cos map, door map, window map,
\* the C category layers in order, and k channels of zeros.
C6_ChannelLayout ==
    (call.op = "get_composite" /\ call.ablation = "None") =>
       /\ call.err = "none"
       /\ Len(ret) = 8 + Len(categories) + call.k
       /\ ret[1] = room_mask
       /\ ret[2] = wall_mask
       /\ ret[3] = CatSum(cat_map)
       /\ ret[3] = CatSum(SubSeq(ret, 9, 8 + Len(categories)))
       /\ ret[4] = height_map
       /\ ret[5] = sin_map
       /\ ret[6] = cos_map
       /\ ret[7] = door_map
       /\ ret[8] = window_map
       /\ \A i \in 1..Len(categories) : ret[8 + i] = cat_map[i]
       /\ \A i \in 1..call.k : ret[8 + Len(categories) + i] = Zeros

\* the full layout with extra channels, of a composite with doors, windows
\* and two objects
C6_Witness ==
    /\ call.op = "get_composite"
    /\ call.ablation = "None"
    /\ call.k = MaxExtra
    /\ Len(log) = 2
    /\ door_map # Zeros
    /\ window_map # Zeros
    /\ door_map # window_map
    /\ ret[3] # Zeros

\* the offset the sentinel rule and the clamp give together
RuleOffset(bmin, size) ==
    IF size = Sentinel THEN 0 ELSE Max(0, Floor(bmin))

\* the patch the last single-node call read, and its bbox_min
CallPatch ==
    IF call.op = "add_node_obb" THEN call.node.height_map_obb
    ELSE call.node.height_map
CallBmin ==
    IF call.op = "add_node_obb" THEN call.node.bbox_min_obb
    ELSE call.node.bbox_min

\* the cells of entry e's patch once pasted
Inside(e, c) ==
    /\ e.xmin <= c[1] /\ c[1] < e.xmin + e.h.xsize
    /\ e.ymin <= c[2] /\ c[2] < e.ymin + e.h.ysize

\* entry e's buffer holds its patch from (xmin, ymin) on and nothing else
PastedAt(e) ==
    \A c \in Cells :
       e.to_add[c] = IF Inside(e, c)
                     THEN PatchAt(e.h, c[1] - e.xmin, c[2] - e.ymin)
                     ELSE 0

\* C7: in the constructor, add_node and add_node_obb alike, a patch whose
\* size on an axis is 256 is pasted at offset 0 on that axis, the other axis
\* keeping its own offset.
C7_SentinelEverywhere ==
    /\ \A i \in 1..Len(seed_log) :
          /\ seed_log[i].xmin = RuleOffset(seed_log[i].bmin[1], seed_log[i].h.xsize)
          /\ seed_log[i].ymin = RuleOffset(seed_log[i].bmin[2], seed_log[i].h.ysize)
    /\ \A i \in 1..Len(log) :
          /\ log[i].xmin = RuleOffset(log[i].bmin[1], log[i].h.xsize)
          /\ log[i].ymin = RuleOffset(log[i].bmin[2], log[i].h.ysize)
    /\ (/\ call.op \in {"add_node", "add_node_obb"}
        /\ PasteOk(CallPatch, RuleOffset(CallBmin[1], CallPatch.xsize),
                   RuleOffset(CallBmin[3], CallPatch.ysize)))
       => /\ call.err = "none"
          /\ log # <<>>
          /\ log[Len(log)].h = CallPatch
          /\ log[Len(log)].xmin = RuleOffset(CallBmin[1], CallPatch.xsize)
          /\ log[Len(log)].ymin = RuleOffset(CallBmin[3], CallPatch.ysize)

\* C8 as claimed: in the constructor, add_node and add_node_obb the paste
\* offset on each axis is max(0, floor(bbox_min)), and no cell outside
\* [offset, offset + size) is written.
C8_ClampOnly ==
    /\ \A i \in 1..Len(seed_log) :
          /\ seed_log[i].xmin = Max(0, Floor(seed_log[i].bmin[1]))
          /\ seed_log[i].ymin = Max(0, Floor(seed_log[i].bmin[2]))
          /\ PastedAt(seed_log[i])
    /\ \A i \in 1..Len(log) :
          /\ log[i].xmin = Max(0, Floor(log[i].bmin[1]))
          /\ log[i].ymin = Max(0, Floor(log[i].bmin[2]))
          /\ PastedAt(log[i])

\* the offset of the amended claim: the sentinel rule where the code has it
AmendedOffset(obb, bmin, size) ==
    IF ~obb /\ size = Sentinel THEN 0 ELSE Max(0, Floor(bmin))

\* C8 amended: the paste offset on each axis is max(0, floor(bbox_min)),
\* except that the constructor and add_node use 0 on an axis where the patch
\* is 256 long; so a negative bbox_min component pastes from row/column 0,
\* never from a negative or wrapped index, and no cell outside
\* [offset, offset + size) is written or raised.
C8_Clamp ==
    /\ \A i \in 1..Len(seed_log) :
          /\ seed_log[i].xmin = AmendedOffset(FALSE, seed_log[i].bmin[1], seed_log[i].h.xsize)
          /\ seed_log[i].ymin = AmendedOffset(FALSE, seed_log[i].bmin[2], seed_log[i].h.ysize)
          /\ Floor(seed_log[i].bmin[1]) < 0 => seed_log[i].xmin = 0
          /\ Floor(seed_log[i].bmin[2]) < 0 => seed_log[i].ymin = 0
          /\ seed_log[i].xmin >= 0 /\ seed_log[i].ymin >= 0
          /\ PastedAt(seed_log[i])
    /\ \A i \in 1..Len(log) :
          /\ log[i].xmin = AmendedOffset(log[i].obb, log[i].bmin[1], log[i].h.xsize)
          /\ log[i].ymin = AmendedOffset(log[i].obb, log[i].bmin[2], log[i].h.ysize)
          /\ Floor(log[i].bmin[1]) < 0 => log[i].xmin = 0
          /\ Floor(log[i].bmin[2]) < 0 => log[i].ymin = 0
          /\ log[i].xmin >= 0 /\ log[i].ymin >= 0
          /\ PastedAt(log[i])
          /\ \A c \in log[i].raised : Inside(log[i], c)

\* a door, an add_node and an add_node_obb, each with a negative bbox_min
\* component, pasted from 0 on that axis
C8_Witness ==
    /\ \E i \in 1..Len(seed_log) :
          /\ Floor(seed_log[i].bmin[1]) < 0
          /\ seed_log[i].to_add[<<0, 0>>] > 0
    /\ \E i, j \in 1..Len(log) :
          /\ ~log[i].obb /\ log[j].obb
          /\ Floor(log[i].bmin[2]) < 0 /\ Floor(log[j].bmin[2]) < 0
          /\ log[i].to_add[<<0, 0>>] > 0 /\ log[j].to_add[<<0, 0>>] > 0

\* C9: every add call that fails leaves every grid of the composite as it
\* was before the call.
C9_AllOrNothing ==
    [][(call'.op \in AddOps /\ call'.err # "none") => UNCHANGED grids]_vars

\* C10: get_composite changes no grid; with ablation "depth" it returns
\* 1 + k channels, height_map and k channels of zeros; with "basic" 6 + k
\* channels, room mask, wall mask, the sum of the category layers, height
\* map, sin map, cos map and k channels of zeros; with any other ablation
\* but None it fails and returns no tensor.
C10_Ablations ==
    [][call'.op = "get_composite" =>
          /\ UNCHANGED grids
          /\ call'.ablation = "depth" =>
                /\ call'.err = "none"
                /\ Len(ret') = 1 + call'.k
                /\ ret'[1] = height_map
                /\ \A i \in 1..call'.k : ret'[1 + i] = Zeros
          /\ call'.ablation = "basic" =>
                /\ call'.err = "none"
                /\ Len(ret') = 6 + call'.k
                /\ ret'[1] = room_mask
                /\ ret'[2] = wall_mask
                /\ ret'[3] = CatSum(cat_map)
                /\ ret'[4] = height_map
                /\ ret'[5] = sin_map
                /\ ret'[6] = cos_map
                /\ \A i \in 1..call'.k : ret'[6 + i] = Zeros
          /\ call'.ablation \notin {"None", "depth", "basic"} =>
                /\ call'.err = "NotImplementedError"
                /\ ret' = <<>>
      ]_vars

\* an unknown ablation refused on a composite that holds two objects
C10_Witness ==
    /\ call.op = "get_composite"
    /\ call.ablation = "other"
    /\ call.err = "NotImplementedError"
    /\ ret = <<>>
    /\ Len(log) = 2

\* C11: add_and_get_composite with temporary = False fails with
\* NotImplementedError whatever the composite and the other arguments are,
\* returns no tensor and leaves every grid as it was.
C11_PersistRejected ==
    [][(call'.op = "add_and_get_composite" /\ ~call'.temporary) =>
          /\ call'.err = "NotImplementedError"
          /\ ret' = <<>>
          /\ UNCHANGED grids
      ]_vars

\* a preview asked to persist, refused on a composite that holds two
\* objects, for a candidate that would have raised a cell
C11_Witness ==
    /\ call.op = "add_and_get_composite"
    /\ ~call.temporary
    /\ call.err = "NotImplementedError"
    /\ ret = <<>>
    /\ Len(log) = 2
    /\ \E c \in Cells : CandidateBuffer(call.node)[c] > height_map[c]

\* the channel of the returned tensor that holds height_map
HeightChannel(ablation) == IF ablation = "depth" THEN 1 ELSE 4

\* the number of entries of a log that cover cell c, of a category in cats
Covering(entries, cats, c) ==
    Cardinality({i \in 1..Len(entries) :
                    entries[i].category \in cats /\ entries[i].to_add[c] > 0})

\* C12 as stated: every channel of the tensor get_composite returns, other
\* than the height_map channel, has all its values within [0, 1].
C12_UnitRange ==
    (call.op = "get_composite" /\ call.err = "none") =>
        \A i \in 1..Len(ret) : \A c \in Cells :
            i # HeightChannel(call.ablation) =>
                (0 <= ret[i][c] /\ ret[i][c] <= One)

\* C12 as amended: in the tensor get_composite returns, the room_mask,
\* wall_mask, sin_map and cos_map channels and the extra channels are within
\* [0, 1]; the occupancy channels are not: the collapsed channel, each
\* category channel, and the door and window channels hold 0.5 times the
\* number of placements (of any category, of that category, door records,
\* window records) that cover the cell, whatever that number is.
C12_Range ==
    (call.op = "get_composite" /\ call.err = "none") =>
        \A c \in Cells :
            /\ call.ablation \in {"None", "basic"} =>
                 /\ \A i \in {1, 2, 5, 6} : 0 <= ret[i][c] /\ ret[i][c] <= One
                 /\ ret[3][c] = Half * Covering(log, 0..(NumCats - 1), c)
            /\ call.ablation = "None" =>
                 /\ ret[7][c] = Half * Covering(seed_log, {"door"}, c)
                 /\ ret[8][c] = Half * Covering(seed_log, {"window"}, c)
                 /\ \A k \in 1..NumCats :
                      ret[8 + k][c] = Half * Covering(log, {k - 1}, c)
                 /\ \A i \in (9 + NumCats)..Len(ret) : ret[i][c] = 0
            /\ call.ablation \in {"depth", "basic"} =>
                 \A i \in (HeightChannel(call.ablation) + 1)..Len(ret) :
                    i > (IF call.ablation = "basic" THEN 6 ELSE 1)
                        => ret[i][c] = 0

\* the full composite read after three placements that all cover cell
\* (0, 0), two of them of one category: the collapsed channel is 1.5 there
C12_Witness ==
    /\ call.op = "get_composite"
    /\ call.err = "none"
    /\ call.ablation = "None"
    /\ Len(log) = MaxAdds + 1
    /\ ret[3][<<0, 0>>] = 3 * Half
    /\ \E k \in 1..NumCats : ret[8 + k][<<0, 0>>] = One

\* a single add_node or add_node_obb call that pasted its object
SingleAdd == call'.op \in {"add_node", "add_node_obb"} /\ call'.err = "none"

\* C13 as stated: both the orientation write and the category-mask write at
\* a cell belong to the placement that won the height comparison there: an
\* object that does not raise a cell leaves sin_map, cos_map and its layer
\* of cat_map as they were at that cell.
C13_WinnerTied ==
    [][SingleAdd =>
          \A c \in Cells :
             c \notin NewEntries[1].raised =>
                /\ sin_map'[c] = sin_map[c]
                /\ cos_map'[c] = cos_map[c]
                /\ cat_map'[NewEntries[1].category + 1][c]
                      = cat_map[NewEntries[1].category + 1][c]
      ]_vars

\* C13 as amended: only the orientation write is tied to the winner.  An
\* add writes (sin+1)/2 and (cos+1)/2 exactly at the cells it raises and
\* leaves them elsewhere, while it adds 0.5 to its layer of cat_map at every
\* cell its buffer is positive, raised or not.
C13_Attribution ==
    [][SingleAdd =>
          \A c \in Cells :
             /\ c \in NewEntries[1].raised =>
                   /\ sin_map'[c] = Enc(NewEntries[1].sin)
                   /\ cos_map'[c] = Enc(NewEntries[1].cos)
             /\ c \notin NewEntries[1].raised =>
                   /\ sin_map'[c] = sin_map[c]
                   /\ cos_map'[c] = cos_map[c]
             /\ cat_map'[NewEntries[1].category + 1][c]
                   = cat_map[NewEntries[1].category + 1][c]
                     + (IF NewEntries[1].to_add[c] > 0 THEN Half ELSE 0)
      ]_vars

\* an object added over a cell another object of another category and
\* orientation holds at the same height: the cell keeps the other's
\* orientation and the loser's layer holds 0.5 there
C13_Witness ==
    /\ call.op = "add_node"
    /\ call.err = "none"
    /\ Len(log) = 2
    /\ log[1].category # log[2].category
    /\ \E c \in Cells :
          /\ log[2].to_add[c] > 0
          /\ c \notin log[2].raised
          /\ cat_map[log[2].category + 1][c] = Half
          /\ sin_map[c] = Enc(log[1].sin)
          /\ sin_map[c] # Enc(log[2].sin)

\* C18: right after construction from (categories, floor, wall,
\* door_window_nodes), room_mask is 1 exactly where floor or wall is
\* nonzero; wall_mask is 1 where some pasted door/window buffer is nonzero,
\* else 0.5 where wall is nonzero, else 0; height_map is the cellwise max of
\* floor, wall and the pasted buffers; door_map and window_map are 0.5 times
\* the number of door and of window records nonzero at the cell; cat_map has
\* one layer per category, all zero, and sin_map and cos_map are zero.
C18_Seeded ==
    (call.op = "__init__" /\ call.err = "none") =>
        /\ \A c \in Cells :
             /\ room_mask[c] =
                   (IF call.floor[c] # 0 \/ call.wall[c] # 0 THEN One ELSE 0)
             /\ wall_mask[c] =
                   (IF \E i \in 1..Len(seed_log) : seed_log[i].to_add[c] # 0
                    THEN One
                    ELSE IF call.wall[c] # 0 THEN Half ELSE 0)
             /\ height_map[c] =
                   MaxOver(Max(call.floor[c], call.wall[c]), seed_log, c)
             /\ door_map[c] =
                   Half * Cardinality({i \in 1..Len(seed_log) :
                               /\ seed_log[i].category = "door"
                               /\ seed_log[i].to_add[c] # 0})
             /\ window_map[c] =
                   Half * Cardinality({i \in 1..Len(seed_log) :
                               /\ seed_log[i].category = "window"
                               /\ seed_log[i].to_add[c] # 0})
             /\ sin_map[c] = 0
             /\ cos_map[c] = 0
        /\ Len(cat_map) = Len(categories)
        /\ Len(categories) = NumCats
        /\ \A k \in 1..Len(cat_map) : cat_map[k] = Zeros

\* a room with a wall, a door in the wall and a window beside it, just
\* constructed: wall_mask holds 1, 0.5 and 0, the window stands above the
\* floor, and the door lies below the wall it is cut into
C18_Witness ==
    /\ call.op = "__init__"
    /\ call.err = "none"
    /\ Len(seed_log) = 2
    /\ \E c \in Cells : wall_mask[c] = One /\ call.wall[c] # 0
    /\ \E c \in Cells : wall_mask[c] = One /\ call.wall[c] = 0
    /\ \E c \in Cells : wall_mask[c] = Half
    /\ \E c \in Cells : wall_mask[c] = 0 /\ room_mask[c] = One
    /\ \E c \in Cells : door_map[c] = Half /\ height_map[c] = call.wall[c]
    /\ \E c \in Cells : window_map[c] = Half /\ height_map[c] > call.floor[c]

\* C19: every add_node / add_node_obb call on a node of category k leaves
\* room_mask, wall_mask, door_map, window_map and every layer of cat_map
\* other than k as they were, leaves layer k as it was where the pasted
\* buffer is zero, and leaves height_map, sin_map and cos_map as they were
\* at every cell where the buffer is not strictly greater than the height
\* held before the call; a refused call leaves every grid as it was.
C19_Frame ==
    [][call'.op \in {"add_node", "add_node_obb"} =>
          /\ UNCHANGED <<room_mask, wall_mask, door_map, window_map>>
          /\ Len(cat_map') = Len(cat_map)
          /\ \A k \in 1..Len(cat_map) :
                k # call'.node.category + 1 => cat_map'[k] = cat_map[k]
          /\ call'.err # "none" => UNCHANGED grids
          /\ call'.err = "none" =>
                \A c \in Cells :
                   /\ NewEntries[1].to_add[c] = 0 =>
                         cat_map'[call'.node.category + 1][c]
                            = cat_map[call'.node.category + 1][c]
                   /\ ~(NewEntries[1].to_add[c] > height_map[c]) =>
                         /\ height_map'[c] = height_map[c]
                         /\ sin_map'[c] = sin_map[c]
                         /\ cos_map'[c] = cos_map[c]
      ]_vars

\* a box added in a room with a wall, a door and a window, over an object
\* of another category: the other layer still holds its 0.5 under the box,
\* the box's layer is empty outside it, and the wall cell under the box
\* keeps its height
C19_Witness ==
    /\ call.op = "add_node_obb"
    /\ call.err = "none"
    /\ Len(log) = 2
    /\ Len(seed_log) = 2
    /\ log[1].category # log[2].category
    /\ \E c \in Cells :
          /\ log[2].to_add[c] > 0
          /\ cat_map[log[1].category + 1][c] = Half
          /\ height_map[c] > log[2].to_add[c]
    /\ \E c \in Cells :
          /\ log[2].to_add[c] = 0
          /\ cat_map[log[2].category + 1][c] = 0

\* the orders of a list of n nodes
Orders(n) == {p \in [1..n -> 1..n] : \A i, j \in 1..n : p[i] = p[j] => i = j}

\* the buffer add_node pastes a node into
NodeBuffer(node) == Paste(node.height_map, NodeXmin(node), NodeYmin(node))

\* two or more nodes of the list tie for the greatest height at cell c with
\* different orientations
TieAt(nodes, c) ==
    \E i, j \in 1..Len(nodes) :
       /\ i # j
       /\ NodeBuffer(nodes[i])[c] = NodeBuffer(nodes[j])[c]
       /\ \A k \in 1..Len(nodes) :
             NodeBuffer(nodes[k])[c] <= NodeBuffer(nodes[i])[c]
       /\ get_transformation(nodes[i].transform)
             # get_transformation(nodes[j].transform)

\* add_nodes leaves the same height_map and cat_map whatever the order of
\* the list, and the same sin_map and cos_map but at tie cells
OrderIndependentOn(self, lists) ==
    \A nodes \in lists : \A p \in Orders(Len(nodes)) :
       LET a == add_nodes(self, nodes).self
           b == add_nodes(self, [i \in 1..Len(nodes) |-> nodes[p[i]]]).self
       IN /\ a.height_map = b.height_map
          /\ a.cat_map = b.cat_map
          /\ \A c \in Cells :
                (a.sin_map[c] # b.sin_map[c] \/ a.cos_map[c] # b.cos_map[c])
                   => TieAt(nodes, c)

\* C20: from the same seeded composite, add_nodes of the same nodes in any
\* two orders leaves identical height_map and cat_map, and sin_map and
\* cos_map that differ only at cells where two or more of the nodes tie for
\* the greatest height with different orientations.
C20_OrderIndependent ==
    (built /\ log = <<>>) => OrderIndependentOn(Self, NodeLists(MaxAdds))

\* the same, for the lists of at most three nodes that all fit the grid: it
\* holds there
OrderIndependentWhenFitting ==
    (built /\ log = <<>>) =>
        OrderIndependentOn(
            Self, UNION { [1..k -> {NodeA, NodeC, NodeD}] : k \in 0..3 })

\* what the holder of the returned stack reads, before and after the step
HeldBefore == IF held.alias THEN cat_map ELSE held.value
HeldAfter == IF held'.alias THEN cat_map' ELSE held'.value

\* C17: get_cat_map returns a stack equal to cat_map as it is at the call;
\* a later add_node does not change what was returned; and a write into
\* what was returned changes neither cat_map nor any other grid, so that
\* get_composite returns after the write what it returned before.
C17_DefensiveCopy ==
    [][/\ call'.op = "get_cat_map" =>
             HeldAfter = cat_map /\ UNCHANGED grids
       /\ (call'.op = "add_node" /\ held # <<>>) => HeldAfter = HeldBefore
       /\ call'.op = "write" =>
             /\ UNCHANGED grids
             /\ \A k \in Extras, ablation \in Ablations :
                   get_composite(Self', k, ablation)
                      = get_composite(Self, k, ablation)
      ]_vars

\* a stack returned after one add and written by its holder after a second
\* add: it still holds the one add, with the holder's write, and cat_map
\* holds both adds without the write
C17_Witness ==
    /\ call.op = "write"
    /\ held # <<>>
    /\ ~held.alias
    /\ Len(log) = 2
    /\ held.value[1][<<0, 0>>] = 7
    /\ cat_map[1][<<0, 0>>] # 7
    /\ \E c \in Cells :
          /\ held.value[NumCats][c] = Half
          /\ cat_map[NumCats][c] = One

\* the last call was a load that built its RenderedScene
Loaded == call.op = "RenderedScene" /\ call.err = "none"

\* the raw nodes of the room file the last load read
StoredNodes == RoomFile(call.data_dir, FName(call.index, call.rotation)).nodes

\* the ids of a list of nodes, in order
Ids(nodes) == [i \in 1..Len(nodes) |-> nodes[i].id]

IsFurniture(node) == get_final_category(node.modelId) \notin {"door", "window"}

\* the last load and the load kept are of the same room with the same seed
SameRequest ==
    /\ kept # None
    /\ kept.data_dir = call.data_dir
    /\ kept.index = call.index
    /\ kept.rotation = call.rotation
    /\ kept.seed = call.seed

\* C14: two loads of the same room with shuffle = True and the same seed,
\* whatever integer it is, 0 included, build the same order of object_nodes,
\* whatever loads and draws came between them; and a load with shuffle =
\* False builds object_nodes in the stored order.
C14_Determinism ==
    (Loaded /\ call.load_objects) =>
        /\ (call.shuffle /\ call.seed # None /\ SameRequest) =>
              loaded.object_nodes = kept.object_nodes
        /\ ~call.shuffle =>
              Ids(loaded.object_nodes) = Ids(SelectSeq(StoredNodes, IsFurniture))

\* the same, for the seeds other than 0: it holds there
DeterminismWhenSeedNonzero ==
    (Loaded /\ call.load_objects) =>
        /\ (call.shuffle /\ call.seed # None /\ call.seed # <<0>> /\ SameRequest)
              => loaded.object_nodes = kept.object_nodes
        /\ ~call.shuffle =>
              Ids(loaded.object_nodes) = Ids(SelectSeq(StoredNodes, IsFurniture))

\* the first token of each line of a directory's frequency file, in order
FileNames(data_dir) ==
    [i \in 1..Len(final_categories_frequency(data_dir)) |->
        final_categories_frequency(data_dir)[i][1]]

\* C15: a load builds the class-wide category index exactly when there is
\* none or when its data_dir is not the cached one, and else leaves it as it
\* is; after a load that succeeded the index is the names of the frequency
\* file of the load's data_dir, in file order, without "door" and "window",
\* each name indexed by its position, so that every room loaded from one
\* directory sees the same list.
C15_CategoryCache ==
    [][call'.op = "RenderedScene" =>
          LET must == cls_categories = None \/ current_data_dir # call'.data_dir
              expected ==
                  SelectSeq(FileNames(call'.data_dir),
                            LAMBDA c : c # "door" /\ c # "window")
          IN /\ call'.rebuilt <=> must
             /\ ~must =>
                   UNCHANGED <<cls_categories, cat_to_index, current_data_dir>>
             /\ call'.err = "none" =>
                   /\ cls_categories' = expected
                   /\ current_data_dir' = call'.data_dir
                   /\ DOMAIN cat_to_index' =
                         {expected[i] : i \in 1..Len(expected)}
                   /\ \A i \in 1..Len(expected) :
                         cat_to_index'[expected[i]] = i - 1
      ]_vars

\* a second room of a directory loaded from the cached index, after the
\* index was built for another directory and rebuilt for this one
C15_Witness ==
    /\ Loaded
    /\ ~call.rebuilt
    /\ call.data_dir = "bedroom"
    /\ call.rotation = 1
    /\ cls_categories = <<"bed", "lamp", "chair">>
    /\ cat_to_index["chair"] = 2
    /\ kept # None
    /\ kept.data_dir = "living"

\* the nodes of a list as a set
Elements(nodes) == {nodes[i] : i \in 1..Len(nodes)}

\* C16: after a load, the raw nodes whose final category is "door" or
\* "window" are door_window_nodes, in the stored order, each tagged with
\* that string, whatever load_objects is, and none of them is in
\* object_nodes; with load_objects the other raw nodes are object_nodes,
\* each once, tagged with the index of its category; without load_objects
\* object_nodes is empty.
C16_Partition ==
    Loaded =>
        /\ Ids(loaded.door_window_nodes)
              = Ids(SelectSeq(StoredNodes, LAMBDA n : ~IsFurniture(n)))
        /\ \A n \in Elements(loaded.door_window_nodes) :
              /\ n.category = get_final_category(n.modelId)
              /\ n.category \in {"door", "window"}
        /\ \A n \in Elements(loaded.object_nodes) : IsFurniture(n)
        /\ call.load_objects =>
              /\ Len(loaded.object_nodes)
                    = Len(SelectSeq(StoredNodes, IsFurniture))
              /\ {n.id : n \in Elements(loaded.object_nodes)}
                    = {n.id : n \in Elements(SelectSeq(StoredNodes, IsFurniture))}
              /\ \A n \in Elements(loaded.object_nodes) :
                    /\ n.category \in 0..(Len(cls_categories) - 1)
                    /\ cls_categories[n.category + 1]
                          = get_final_category(n.modelId)
                    /\ \E m \in Elements(StoredNodes) :
                          m.id = n.id /\ m.modelId = n.modelId
        /\ ~call.load_objects => loaded.object_nodes = <<>>

\* a room of six nodes loaded with its objects, shuffled: two doors and a
\* window between them kept in the stored order, three objects out of it
C16_Witness ==
    /\ Loaded
    /\ call.load_objects
    /\ call.shuffle
    /\ Len(StoredNodes) = 6
    /\ Ids(loaded.door_window_nodes) = <<2, 4, 6>>
    /\ loaded.door_window_nodes[2].category = "window"
    /\ Len(loaded.object_nodes) = 3
    /\ Ids(loaded.object_nodes) # <<1, 3, 5>>

\* the category index of a directory: the names of its frequency file
\* without "door" and "window"
IndexOf(data_dir) ==
    SelectSeq(FileNames(data_dir), LAMBDA c : c # "door" /\ c # "window")

\* the composite just created has the categories of the directory the kept
\* scene was loaded from, and the scene's object nodes index its layers
OwnCategories ==
    /\ categories = IndexOf(kept.data_dir)
    /\ Len(cat_map) = Len(IndexOf(kept.data_dir))
    /\ \A n \in Elements(kept.object_nodes) :
          /\ n.category \in 0..(Len(cat_map) - 1)
          /\ categories[n.category + 1] = get_final_category(n.modelId)

\* C21: whatever loads, from whatever directories, came between a scene's
\* load and its create_composite call, the composite created has the
\* category list of the scene's own directory: cat_map has as many layers
\* as that directory's index, and every category index on the scene's
\* object nodes is a layer of it that stands for the node's category.
C21_OwnCategories ==
    (call.op = "create_composite" /\ call.err = "none") => OwnCategories

\* the same, when the last load was from the scene's own directory: it
\* holds there
OwnCategoriesWhenDirCurrent ==
    (/\ call.op = "create_composite"
     /\ call.err = "none"
     /\ current_data_dir = kept.data_dir) => OwnCategories

====
